----------------------------- MODULE Spec2Model -----------------------------
(***************************************************************************)
(* A model of the B-Cryptic PDF processor (src/b_cryptic_pdf_app.py):      *)
(* the codec adapter (_process_text), the page composer                    *)
(* (_create_text_page), the document call (decode_pdf), batch_process and  *)
(* the output verifier (_verify_output).                                   *)
(*                                                                         *)
(* A text is a sequence of one-character strings.  A PDF document is       *)
(* either Unreadable or a sequence of pages; a page is the text that       *)
(* extract_text() returns for it.                                          *)
(***************************************************************************)
EXTENDS Integers, Sequences, FiniteSets, TLC

----------------------------------------------------------------------------
(* Bounds of the model *)

\* longest codec input, in pieces (a piece is one raw character or one token)
MaxPieces == 3

\* longest run of one token given to the composer
MaxTokens == 7

\* most pages of a document given to the verifier
MaxVPages == 2

\* most pages of a source document of a document call
MaxPages == 2

\* most entries of a batch's input directory
MaxDocs == 2

\* most top-level operations on one processor
MaxOps == 2

\* most words of a short prose given to the composer
MaxWords == 3

\* most lines of a long prose given to the composer
MaxLines == 38

----------------------------------------------------------------------------
(* Characters and the bracket grammar  \[[\^\*\-\+]?[0-9A-Za-z\-_]+\]      *)

Sigils == {"^", "*", "-", "+"}

\* the alphanumerics the model's texts use, plus '-' and '_'
BodyChars == {"a", "q", "v", "w", "x", "y", "z", "0", "-", "_"}

Whitespace == {" ", "\n"}

RECURSIVE BodyRunEnd(_, _)
\* the index of the last character of the maximal run of body characters
\* that starts at p (p - 1 when the run is empty)
BodyRunEnd(text, p) ==
    IF p <= Len(text) /\ text[p] \in BodyChars
    THEN BodyRunEnd(text, p + 1)
    ELSE p - 1

\* the index of the ']' that ends a match of the pattern starting at i,
\* or 0 when no match starts at i
MatchEnd(text, i) ==
    IF i + 1 > Len(text) \/ text[i] # "["
    THEN 0
    ELSE LET p == i + 1
             closes(q, first) == q >= first /\ q + 1 <= Len(text) /\ text[q + 1] = "]"
             qs == BodyRunEnd(text, p + 1)
             qn == BodyRunEnd(text, p)
         IN  IF text[p] \in Sigils /\ closes(qs, p + 1) THEN qs + 1
             ELSE IF closes(qn, p) THEN qn + 1
             ELSE 0

RECURSIVE Concat(_)
\* ''.join(seq), joined by halves so that long texts stay shallow
Concat(seq) ==
    IF Len(seq) = 0 THEN <<>>
    ELSE IF Len(seq) = 1 THEN seq[1]
    ELSE LET mid == Len(seq) \div 2
         IN  Concat(SubSeq(seq, 1, mid)) \o Concat(SubSeq(seq, mid + 1, Len(seq)))

\* re.findall / re.finditer: the non-overlapping matches, left to right.  A
\* match holds one '[' only, its first character, so no match starts inside
\* another and the scan meets every position where a match starts.
FindAll(text) ==
    Concat([i \in 1..Len(text) |->
               IF MatchEnd(text, i) # 0
               THEN <<SubSeq(text, i, MatchEnd(text, i))>>
               ELSE <<>>])

\* re.search
HasBlock(text) == \E i \in 1..Len(text) : MatchEnd(text, i) # 0

\* Python's  pat in text
Contains(text, pat) ==
    \E i \in 1..(Len(text) - Len(pat) + 1) : SubSeq(text, i, i + Len(pat) - 1) = pat

RECURSIVE LStrip(_)
LStrip(text) ==
    IF text # <<>> /\ Head(text) \in Whitespace THEN LStrip(Tail(text)) ELSE text

RECURSIVE RStrip(_)
RStrip(text) ==
    IF text # <<>> /\ text[Len(text)] \in Whitespace
    THEN RStrip(SubSeq(text, 1, Len(text) - 1))
    ELSE text

\* str.strip()
Strip(text) == RStrip(LStrip(text))

\* the three two-character markers the code tests for
MarkerHat == <<"[", "^">>
MarkerStar == <<"[", "*">>
MarkerDash == <<"[", "-">>

\* '[^' in t or '[*' in t or '[-' in t
HasMarker(text) ==
    Contains(text, MarkerHat) \/ Contains(text, MarkerStar) \/ Contains(text, MarkerDash)

----------------------------------------------------------------------------
(* b_cryptic_core: the Token Table and the pure encoder / decoder.  The    *)
(* module is imported by the source but is not part of it; it is modelled  *)
(* from the specification's contract: a bijection between tokens and       *)
(* decoded units, one unit per character.                                  *)

TokA == <<"[", "^", "x", "]">>
TokLb == <<"[", "*", "y", "]">>
TokRb == <<"[", "-", "z", "]">>
TokHat == <<"[", "+", "w", "]">>
TokSp == <<"[", "v", "]">>
\* a well-formed token that is no key of the table
TokBad == <<"[", "^", "q", "]">>

B_CRYPTIC_DECODING_TABLE ==
    (TokA :> "a") @@ (TokLb :> "[") @@ (TokRb :> "]") @@ (TokHat :> "^") @@ (TokSp :> " ")

TableKeys == DOMAIN B_CRYPTIC_DECODING_TABLE

TableUnits == {B_CRYPTIC_DECODING_TABLE[k] : k \in TableKeys}

B_CRYPTIC_ENCODING_TABLE ==
    [u \in TableUnits |-> CHOOSE k \in TableKeys : B_CRYPTIC_DECODING_TABLE[k] = u]

\* each in-table character becomes its token; any other character is kept
encode_b_cryptic(text) ==
    Concat([i \in 1..Len(text) |->
               IF text[i] \in TableUnits
               THEN B_CRYPTIC_ENCODING_TABLE[text[i]]
               ELSE <<text[i]>>])

DecodeBlocks(blocks) ==
    Concat([i \in 1..Len(blocks) |->
               IF blocks[i] \in TableKeys
               THEN <<B_CRYPTIC_DECODING_TABLE[blocks[i]]>>
               ELSE <<>>])

\* each in-table token becomes its unit
decode_b_cryptic(text) == DecodeBlocks(FindAll(text))

----------------------------------------------------------------------------
(* The codec adapter: _process_text                                        *)

\* [b for b in blocks if b in / not in the table]
SelectSeq2(blocks, wantValid) ==
    Concat([i \in 1..Len(blocks) |->
               IF (blocks[i] \in TableKeys) = wantValid THEN <<blocks[i]>> ELSE <<>>])

\* a variant that keeps every block, in the table or not
ValidBlocksUnfiltered(blocks) == blocks

ValidBlocks(blocks) == SelectSeq2(blocks, TRUE)

InvalidBlocks(blocks) == SelectSeq2(blocks, FALSE)

\* a raised ValueError; joined is what reached the pure decoder (nothing)
Raise(msg) == [ok |-> FALSE, text |-> <<>>, err |-> msg, joined |-> <<>>, called |-> FALSE]

ProcessTextEncode(text) ==
    LET encoded == encode_b_cryptic(text)
        blocks == FindAll(encoded)
    IN  IF encoded = <<>> THEN Raise("Encoding failed")
        ELSE IF blocks = <<>> THEN Raise("Encoding produced no valid B-Cryptic blocks")
        ELSE IF InvalidBlocks(blocks) # <<>> THEN Raise("Found invalid blocks")
        ELSE [ok |-> TRUE, text |-> encoded, err |-> "", joined |-> <<>>, called |-> FALSE]

\* the check made on the decoder's output before it is returned
MarkersLeft(decoded) == HasMarker(decoded)

ProcessTextDecode(text0) ==
    LET text == Strip(text0)
        valid_blocks == ValidBlocks(FindAll(text))
        joined_blocks == Concat(valid_blocks)
        decoded == decode_b_cryptic(joined_blocks)
        called(r) == [r EXCEPT !.joined = joined_blocks, !.called = TRUE]
    IN  IF text = <<>> THEN Raise("Input text is empty")
        ELSE IF valid_blocks = <<>> THEN Raise("No valid B-Cryptic blocks found")
        ELSE IF decoded = <<>> THEN called(Raise("Decoding failed"))
        ELSE IF MarkersLeft(decoded)
             THEN called(Raise("Decoding left B-Cryptic markers in output"))
        ELSE [ok |-> TRUE, text |-> decoded, err |-> "", joined |-> joined_blocks,
              called |-> TRUE]

ProcessText(text, encode) ==
    IF encode THEN ProcessTextEncode(text) ELSE ProcessTextDecode(text)

----------------------------------------------------------------------------
(* The composer: _create_text_page                                         *)

\* letter = (612, 792) points
PageWidth == 612
PageHeight == 792
\* 72 points of margin; 144 is the two side margins together
Margin == 72
SideMargins == 144
\* line_height
LinePitch == 18
\* stringWidth(s, "Courier", 10): the font is monospaced, 6 points a character
CharWidth == 6

stringWidth(s) == CharWidth * Len(s)

\* a word starts at i: a character that is no whitespace, after whitespace
\* or at the start of the text
WordStart(text, i) ==
    text[i] \notin Whitespace /\ (i = 1 \/ text[i - 1] \in Whitespace)

\* the index of the last character of the word that starts at i
WordEnd(text, i) ==
    CHOOSE j \in i..Len(text) :
        /\ \A k \in i..j : text[k] \notin Whitespace
        /\ j = Len(text) \/ text[j + 1] \in Whitespace

\* str.split(): the whitespace-delimited words
Split(text) ==
    Concat([i \in 1..Len(text) |->
               IF WordStart(text, i) THEN <<SubSeq(text, i, WordEnd(text, i))>> ELSE <<>>])

RECURSIVE JoinWith(_, _)
\* sep.join(seq)
JoinWith(seq, sep) ==
    IF seq = <<>> THEN <<>>
    ELSE IF Len(seq) = 1 THEN Head(seq)
    ELSE Head(seq) \o sep \o JoinWith(Tail(seq), sep)

RECURSIVE GroupBlocks(_, _)
\* for i in range(0, len(blocks), n): ''.join(blocks[i:i+n])
GroupBlocks(blocks, n) ==
    IF blocks = <<>> THEN <<>>
    ELSE IF Len(blocks) <= n THEN <<Concat(blocks)>>
    ELSE <<Concat(SubSeq(blocks, 1, n))>> \o GroupBlocks(SubSeq(blocks, n + 1, Len(blocks)), n)

\* tokens on one line
TokensPerLine == 3

TokenLines(text) == GroupBlocks(FindAll(text), TokensPerLine)

\* max_width = letter[0] - 144
max_width == PageWidth - SideMargins

\* a variant that never starts a new line
ExceedsNever(current_width, word_width) == FALSE

\* line 184: the word would exceed the line width
Exceeds(current_width, word_width) == current_width + word_width > max_width

\* a variant that adds the open line even when it holds no word
FlushAlways(current_line) == <<JoinWith(current_line, <<" ">>)>>

\* lines 185-186 and 194-195: the open line is added only if it has content
Flush(current_line) ==
    IF current_line # <<>> THEN <<JoinWith(current_line, <<" ">>)>> ELSE <<>>

RECURSIVE WrapFrom(_, _, _)
\* the word loop: current_line holds the words of the open line
WrapFrom(words, current_line, current_width) ==
    IF words = <<>>
    THEN Flush(current_line)
    ELSE LET word == Head(words)
             word_width == stringWidth(word \o <<" ">>)
         IN  IF Exceeds(current_width, word_width)
             THEN Flush(current_line) \o WrapFrom(Tail(words), <<word>>, word_width)
             ELSE WrapFrom(Tail(words), Append(current_line, word), current_width + word_width)

ProseLines(text) == WrapFrom(Split(text), <<>>, 0)

\* a variant that leaves the line on the bottom margin to the next page
TooLowAtMargin(y) == y <= Margin

\* line 203: we are too low on the page
TooLow(y) == y < Margin

RECURSIVE DrawFrom(_, _, _)
\* the drawing loop: page holds the lines drawn on the open page; the final
\* save() closes it
DrawFrom(lines, y, page) ==
    IF lines = <<>> THEN (IF page # <<>> THEN <<page>> ELSE <<>>)
    ELSE IF TooLow(y)
         THEN <<page>> \o DrawFrom(Tail(lines), PageHeight - Margin - LinePitch, <<Head(lines)>>)
         ELSE DrawFrom(Tail(lines), y - LinePitch, Append(page, Head(lines)))

DrawLines(lines) == DrawFrom(lines, PageHeight - Margin, <<>>)

\* has_blocks
HasBlocks(text) == HasMarker(text)

\* what save() leaves when nothing was drawn: one blank page, or no page
NothingDrawn(blank) == IF blank THEN << <<>> >> ELSE <<>>

\* the pages of the returned reader, each the sequence of lines drawn on it.
\* The drawing loop stands inside the else branch: only prose lines are drawn.
CreateTextPage(text, blank) ==
    LET token == HasBlocks(text)
        lines == IF token THEN TokenLines(text) ELSE ProseLines(text)
        drawn == IF token THEN <<>> ELSE DrawLines(lines)
    IN  [token |-> token,
         lines |-> lines,
         pages |-> IF drawn = <<>> THEN NothingDrawn(blank) ELSE drawn]

\* extract_text() of a rendered page: its lines, one per row
PageText(page) == JoinWith(page, <<"\n">>)

----------------------------------------------------------------------------
(* Documents and the verifier: _verify_output                              *)

\* a file PdfReader cannot open
Unreadable == [readable |-> FALSE, pages |-> <<>>]

Doc(pages) == [readable |-> TRUE, pages |-> pages]

\* any(c in output_text for c in ['[^', '[*', '[-', ']'])
HasSpecial(text) == HasMarker(text) \/ Contains(text, <<"]">>)

VerifyFail(msg) == [ok |-> FALSE, raised |-> FALSE, err |-> msg]

\* a variant without the table-membership check
VerifyEncodeNoTableCheck(input_text, output_text) ==
    IF input_text = output_text THEN VerifyFail("Output text is identical to input text")
    ELSE IF ~HasMarker(output_text) THEN VerifyFail("No B-Cryptic markers found in output")
    ELSE IF FindAll(output_text) = <<>> THEN VerifyFail("No valid B-Cryptic blocks found")
    ELSE [ok |-> TRUE, raised |-> FALSE, err |-> ""]

\* the checks of the encode direction on the first pages' texts
VerifyEncode(input_text, output_text) ==
    LET blocks == FindAll(output_text)
    IN  IF input_text = output_text THEN VerifyFail("Output text is identical to input text")
        ELSE IF ~HasMarker(output_text) THEN VerifyFail("No B-Cryptic markers found in output")
        ELSE IF blocks = <<>> THEN VerifyFail("No valid B-Cryptic blocks found")
        ELSE IF InvalidBlocks(blocks) # <<>> THEN VerifyFail("Found invalid blocks")
        ELSE [ok |-> TRUE, raised |-> FALSE, err |-> ""]

\* the checks of the decode direction
VerifyDecode(output_text) ==
    IF HasBlock(output_text) THEN VerifyFail("Decoded text contains B-Cryptic blocks")
    ELSE IF HasSpecial(output_text) THEN VerifyFail("Decoded text contains B-Cryptic markers")
    ELSE [ok |-> TRUE, raised |-> FALSE, err |-> ""]

\* a variant whose page-count check stands outside the try block
VerifyOutputUncaughtMismatch(input_doc, output_doc, encode) ==
    IF ~input_doc.readable \/ ~output_doc.readable THEN VerifyFail("cannot open")
    ELSE IF Len(input_doc.pages) # Len(output_doc.pages)
         THEN [ok |-> FALSE, raised |-> TRUE, err |-> "Page count mismatch"]
    ELSE IF Len(input_doc.pages) = 0 THEN VerifyFail("list index out of range")
    ELSE LET input_text == Strip(input_doc.pages[1])
             output_text == Strip(output_doc.pages[1])
         IN  IF output_text = <<>> THEN VerifyFail("No text found in output PDF")
             ELSE IF encode THEN VerifyEncode(input_text, output_text)
             ELSE VerifyDecode(output_text)

\* the body of the try block; every exception is caught and reported
VerifyOutput(input_doc, output_doc, encode) ==
    IF ~input_doc.readable \/ ~output_doc.readable THEN VerifyFail("cannot open")
    ELSE IF Len(input_doc.pages) # Len(output_doc.pages) THEN VerifyFail("Page count mismatch")
    ELSE IF Len(input_doc.pages) = 0 THEN VerifyFail("list index out of range")
    ELSE LET input_text == Strip(input_doc.pages[1])
             output_text == Strip(output_doc.pages[1])
         IN  IF output_text = <<>> THEN VerifyFail("No text found in output PDF")
             ELSE IF encode THEN VerifyEncode(input_text, output_text)
             ELSE VerifyDecode(output_text)

----------------------------------------------------------------------------
(* One source page of a document call: the body of the page loop           *)

PageFail(msg) == [ok |-> FALSE, err |-> msg, pages |-> <<>>]

\* decode_pdf adds new_page.pages[0]; encode_pdf adds every page
PageOutcome(text, encode, blank) ==
    IF text = <<>> THEN PageFail("No text found in page")
    ELSE LET r == ProcessText(text, encode)
             new_page == CreateTextPage(r.text, blank).pages
             texts == [i \in 1..Len(new_page) |-> PageText(new_page[i])]
         IN  IF ~r.ok THEN PageFail(r.err)
             ELSE IF Len(new_page) = 0 THEN PageFail("Failed to create new page")
             ELSE [ok |-> TRUE, err |-> "",
                   pages |-> IF encode THEN texts ELSE <<texts[1]>>]

----------------------------------------------------------------------------
(* State                                                                   *)

VARIABLES
    \* the codec adapter called on a text
    cPieces,      \* the input text, as the pieces it is made of
    cOp,          \* "none", "encode", "decode", "roundtrip"
    cRes,         \* what _process_text returned or raised
    cRt,          \* what decoding the encoded text returned or raised
    \* the composer called on a text
    coText, coDone, coRes,
    \* the verifier called on two documents
    vSrc, vDst, vEncode, vDone, vRes,
    vBefore,      \* len(self.errors) when the verifier was called
    \* the processor
    errors,       \* self.errors
    blankOnSave,  \* whether save() of a canvas nothing was drawn on leaves a page
    nOps,         \* top-level operations started so far
    \* batch_process
    bPc, bMode, bTodo, successful, failed, bSeen,
    \* decode_pdf / encode_pdf
    pc, curDoc, reader, page_num, writer, success, written, result, outcomes,
    steps         \* what the running document call has done so far, in order

codecVars == <<cPieces, cOp, cRes, cRt>>
composeVars == <<coText, coDone, coRes>>
verifyVars == <<vSrc, vDst, vEncode, vDone, vRes, vBefore>>
batchVars == <<bPc, bMode, bTodo, successful, failed, bSeen>>
callVars == <<pc, curDoc, reader, page_num, writer, success, written, result, outcomes,
              steps>>
vars == <<codecVars, composeVars, verifyVars, errors, blankOnSave, nOps, batchVars, callVars>>

NoResult == Raise("not called")

NoPages == [token |-> FALSE, lines |-> <<>>, pages |-> <<>>]

CodecIdle == cPieces = <<>> /\ cOp = "none" /\ cRes = NoResult /\ cRt = NoResult

ComposeIdle == coText = <<>> /\ coDone = FALSE /\ coRes = NoPages

VerifyIdle ==
    /\ vSrc = Unreadable /\ vDst = Unreadable /\ vEncode = FALSE
    /\ vDone = FALSE /\ vRes = VerifyFail("not called") /\ vBefore = 0

BatchIdle ==
    /\ bPc = "idle" /\ bMode = "decode" /\ bTodo = <<>>
    /\ successful = <<>> /\ failed = <<>> /\ bSeen = <<>>

CallIdle ==
    /\ pc = "idle" /\ curDoc = 0 /\ reader = Unreadable /\ page_num = 0
    /\ writer = <<>> /\ success = TRUE /\ written = Unreadable
    /\ result = "none" /\ outcomes = <<>> /\ steps = <<>>

\* __init__
ProcessorInit == errors = <<>> /\ nOps = 0

\* an entry of self.errors; doc is the file being processed when it was added
\* (the messages of a document call do not name it), page the page it is about
\* and op the ordinal of the top-level operation that added it
Diag(op, doc, kind, page, msg) ==
    [op |-> op, doc |-> doc, kind |-> kind, page |-> page, msg |-> msg]

\* a step of a document call; page is the page visited, 0 for any other step
Step(what, page) == [what |-> what, page |-> page]

\* self.errors after _verify_output returned r
AfterVerify(errs, op, doc, r) ==
    IF r.ok \/ r.raised THEN errs ELSE Append(errs, Diag(op, doc, "verify", 0, r.err))

----------------------------------------------------------------------------
(* The codec adapter on bounded inputs                                     *)

RawPieces == {<<"a">>, <<" ">>, <<"[">>, <<"]">>, <<"^">>}

TokenPieces == {TokA, TokLb, TokRb, TokHat, TokBad}

Pieces == RawPieces \cup TokenPieces

PieceSeqs(n) == UNION {[1..k -> Pieces] : k \in 0..n}

cText == Concat(cPieces)

InitCodec ==
    /\ cPieces \in PieceSeqs(MaxPieces)
    /\ cOp = "none" /\ cRes = NoResult /\ cRt = NoResult
    /\ ComposeIdle /\ VerifyIdle /\ BatchIdle /\ CallIdle /\ ProcessorInit
    /\ blankOnSave = FALSE

\* _process_text(text)
EncodeText ==
    /\ cOp = "none"
    /\ cOp' = "encode"
    /\ cRes' = ProcessText(cText, TRUE)
    /\ UNCHANGED <<cPieces, cRt, composeVars, verifyVars, errors, blankOnSave, nOps,
                   batchVars, callVars>>

\* _process_text(text, encode=False)
DecodeText ==
    /\ cOp = "none"
    /\ cOp' = "decode"
    /\ cRes' = ProcessText(cText, FALSE)
    /\ UNCHANGED <<cPieces, cRt, composeVars, verifyVars, errors, blankOnSave, nOps,
                   batchVars, callVars>>

\* _process_text(encoded, encode=False) on the text a successful encode returned
DecodeEncoded ==
    /\ cOp = "encode" /\ cRes.ok
    /\ cOp' = "roundtrip"
    /\ cRt' = ProcessText(cRes.text, FALSE)
    /\ UNCHANGED <<cPieces, cRes, composeVars, verifyVars, errors, blankOnSave, nOps,
                   batchVars, callVars>>

NextCodec == EncodeText \/ DecodeText \/ DecodeEncoded

SpecCodec == InitCodec /\ [][NextCodec]_vars

----------------------------------------------------------------------------
(* Claims about the codec adapter, checked under SpecCodec                 *)

\* the in-table tokens among the pieces the input was made of, joined
ExpectedJoined == Concat(SelectSeq(cPieces, LAMBDA p : p \in TableKeys))

\* C1: for a non-empty prose text with no bracket-grammar substring, decoding
\* the text that encode returned succeeds and gives the text back, unit for
\* unit.
C1_RoundTrip ==
    (cOp = "roundtrip" /\ cText # <<>> /\ ~HasBlock(cText))
        => (cRt.ok /\ cRt.text = cText)

\* C6: decode never returns a text that holds a bracket-grammar substring;
\* whenever the pure decoder's output holds one, decode fails with
\* "Decoding left B-Cryptic markers in output".
C6_DecodeTotal ==
    /\ (cOp = "decode" /\ cRes.ok) => ~HasBlock(cRes.text)
    /\ (cOp = "decode" /\ cRes.called /\ HasBlock(decode_b_cryptic(cRes.joined)))
           => (~cRes.ok /\ cRes.err = "Decoding left B-Cryptic markers in output")

\* C7 as stated: the pure decoder receives exactly the in-table tokens of the
\* input, joined in order; an input with no in-table token fails with
\* "No valid B-Cryptic blocks found".
C7_FilterOriginal ==
    cOp = "decode" =>
        IF ExpectedJoined # <<>>
        THEN cRes.called /\ cRes.joined = ExpectedJoined
        ELSE ~cRes.ok /\ ~cRes.called /\ cRes.err = "No valid B-Cryptic blocks found"

\* C7 as amended: the same, except that an input that is empty once trimmed
\* fails with "Input text is empty" before any token is looked for.
C7_Filter ==
    cOp = "decode" =>
        IF ExpectedJoined # <<>>
        THEN cRes.called /\ cRes.joined = ExpectedJoined
        ELSE /\ ~cRes.ok /\ ~cRes.called
             /\ cRes.err = IF Strip(cText) = <<>> THEN "Input text is empty"
                           ELSE "No valid B-Cryptic blocks found"

\* a decode that dropped a stray token and a raw character and still called
\* the decoder on the rest
C7_Witness ==
    /\ cOp = "decode" /\ cRes.called
    /\ \E i \in 1..Len(cPieces) : cPieces[i] = TokBad
    /\ \E i \in 1..Len(cPieces) : cPieces[i] \in RawPieces
    /\ cRes.joined = TokA

----------------------------------------------------------------------------
(* The composer on bounded inputs                                          *)

RECURSIVE TokenRun(_, _)
\* n copies of token t, with no separator
TokenRun(t, n) == IF n = 0 THEN <<>> ELSE t \o TokenRun(t, n - 1)

\* a word of n characters
WordOf(n) == [i \in 1..n |-> "a"]

\* the longest word of which two and their blanks do not fit on a line
HalfLine == max_width \div (2 * CharWidth)

\* the shortest word wider than the line
WideWord == max_width \div CharWidth + 1

\* a lone character, words around half a line, and a word wider than the line
WordLens == {1, HalfLine - 2, HalfLine - 1, HalfLine, WideWord}

\* the words, each after one blank except the first
Sentence(words) ==
    Concat([k \in 1..Len(words) |-> IF k = 1 THEN words[k] ELSE <<" ">> \o words[k]])

ShortProses ==
    {Sentence([k \in 1..Len(ls) |-> WordOf(ls[k])]) :
        ls \in UNION {[1..n -> WordLens] : n \in 0..MaxWords}}

\* n words no two of which share a line: a prose of n lines
LongProse(n) == Sentence([k \in 1..n |-> WordOf(HalfLine)])

LongProses == {LongProse(n) : n \in (MaxLines - 2)..MaxLines}

ComposerInputs ==
    {Concat(ps) : ps \in PieceSeqs(MaxPieces)}
        \cup {TokenRun(t, n) : t \in {TokA, TokLb, TokHat}, n \in 0..MaxTokens}
        \cup {TokenRun(TokA, n) \o <<" ">> \o TokenRun(TokBad, m) :
                  n \in 1..MaxTokens, m \in 1..2}
        \cup ShortProses \cup LongProses

InitCompose ==
    /\ coText \in ComposerInputs
    /\ coDone = FALSE /\ coRes = NoPages
    /\ blankOnSave \in BOOLEAN
    /\ CodecIdle /\ VerifyIdle /\ BatchIdle /\ CallIdle /\ ProcessorInit

\* _create_text_page(text)
Compose ==
    /\ ~coDone
    /\ coDone' = TRUE
    /\ coRes' = CreateTextPage(coText, blankOnSave)
    /\ UNCHANGED <<coText, codecVars, verifyVars, errors, blankOnSave, nOps,
                   batchVars, callVars>>

NextCompose == Compose

SpecCompose == InitCompose /\ [][NextCompose]_vars

\* lines_per_page = floor(usable_height / line_pitch)
LinesPerPage == (PageHeight - 2 * Margin) \div LinePitch

\* the lines drawn on the returned pages, in page order
RenderedLines == Concat(coRes.pages)

\* C10: a token-mode text of 3k tokens gives ceil(k / L) rendered pages of at
\* most L lines each, and the rendered lines are the k groups of 3
\* consecutive tokens, in input order.
C10_Pagination ==
    LET tokens == FindAll(coText)
        k == Len(tokens) \div 3
    IN  (coDone /\ HasBlocks(coText) /\ k >= 1 /\ Len(tokens) = 3 * k) =>
            /\ Len(coRes.pages) = (k + LinesPerPage - 1) \div LinesPerPage
            /\ \A i \in 1..Len(coRes.pages) : Len(coRes.pages[i]) <= LinesPerPage
            /\ RenderedLines =
                   [i \in 1..k |-> tokens[3 * i - 2] \o tokens[3 * i - 1] \o tokens[3 * i]]

----------------------------------------------------------------------------
(* The verifier on bounded inputs                                          *)

VTexts == {<<>>, <<"a">>, TokA, TokBad, TokA \o TokBad}

VerifyDocs(n) == {Unreadable} \cup {Doc(ps) : ps \in UNION {[1..k -> VTexts] : k \in 0..n}}

InitVerify ==
    /\ vSrc \in VerifyDocs(MaxVPages) /\ vDst \in VerifyDocs(MaxVPages)
    /\ vEncode \in BOOLEAN
    /\ vDone = FALSE /\ vRes = VerifyFail("not called") /\ vBefore = 0
    /\ errors \in {<<>>, <<Diag(0, 1, "page", 1, "No text found in page")>>}
    /\ nOps = 0 /\ blankOnSave = FALSE
    /\ CodecIdle /\ ComposeIdle /\ BatchIdle /\ CallIdle

\* _verify_output(input_path, output_path, encode)
VerifyCall ==
    /\ ~vDone
    /\ vDone' = TRUE
    /\ vBefore' = Len(errors)
    /\ vRes' = VerifyOutput(vSrc, vDst, vEncode)
    /\ errors' = AfterVerify(errors, 0, 0, VerifyOutput(vSrc, vDst, vEncode))
    /\ UNCHANGED <<vSrc, vDst, vEncode, codecVars, composeVars, blankOnSave, nOps,
                   batchVars, callVars>>

NextVerify == VerifyCall

SpecVerify == InitVerify /\ [][NextVerify]_vars


\* C8: the verifier returns a boolean and never raises; a failure appends
\* exactly one diagnostic, a success none; differing page counts fail.
C8_VerifierReports ==
    vDone =>
        /\ ~vRes.raised
        /\ vRes.ok => Len(errors) = vBefore
        /\ ~vRes.ok =>
               /\ Len(errors) = vBefore + 1
               /\ errors[Len(errors)].kind = "verify"
        /\ (vSrc.readable /\ vDst.readable /\ Len(vSrc.pages) # Len(vDst.pages))
               => ~vRes.ok


\* a failed verification of documents whose page counts differ
C8_Witness ==
    /\ vDone /\ ~vRes.ok /\ vRes.err = "Page count mismatch"
    /\ Len(vSrc.pages) = 2 /\ Len(vDst.pages) = 1 /\ vBefore = 1

\* a page holds a well-formed token that is no key of the table
HasInvalidBlock(text) == InvalidBlocks(FindAll(text)) # <<>>

\* C9 as stated: encode-direction verification fails whenever any page of the
\* destination holds a token that is not in the table.
C9_EveryPageOriginal ==
    (vDone /\ vEncode /\ vDst.readable
        /\ \E i \in 1..Len(vDst.pages) : HasInvalidBlock(vDst.pages[i]))
        => ~vRes.ok

\* C9 as amended: it fails whenever the FIRST page of the destination holds
\* such a token, with "Found invalid blocks" when no earlier check (page
\* count, identical text, no marker) fails; later pages are not read.
C9_FirstPage ==
    (vDone /\ vEncode /\ vDst.readable /\ Len(vDst.pages) >= 1
        /\ HasInvalidBlock(vDst.pages[1]))
        => /\ ~vRes.ok
           /\ (/\ vSrc.readable /\ Len(vSrc.pages) = Len(vDst.pages)
               /\ Strip(vSrc.pages[1]) # Strip(vDst.pages[1])
               /\ HasMarker(vDst.pages[1]))
                  => vRes.err = "Found invalid blocks"

\* a destination rejected for the invalid token on its first page
C9_Witness ==
    /\ vDone /\ vEncode /\ vRes.err = "Found invalid blocks"
    /\ vDst.pages[1] = TokA \o TokBad /\ Len(vSrc.pages) = Len(vDst.pages)

----------------------------------------------------------------------------
(* The document call decode_pdf, batch_process, and the calls the front    *)
(* end makes                                                               *)

PEmpty == <<>>
POk == TokA \o TokSp \o TokA
PProse == <<"a", " ", "a">>
PRb == TokA \o TokRb
PSp == TokSp

\* the texts extract_text() may return for a source page
PageTexts == {PEmpty, POk, PProse, PRb, PSp}

\* a page of tokens that decode to a prose of MaxLines lines
PLong == encode_b_cryptic(LongProse(MaxLines))

\* the body of the page loop of decode_pdf, worked out once for each text a
\* source page of the model may hold
DecodeOutcome ==
    [text \in PageTexts \cup {PLong}, blank \in BOOLEAN |-> PageOutcome(text, FALSE, blank)]

DocContents == {Unreadable} \cup {Doc(ps) : ps \in UNION {[1..k -> PageTexts] : k \in 0..MaxPages}}

\* what the claims call a document that is readable and processes cleanly:
\* it has pages, and each has text the codec adapter accepts
Clean(d, encode) ==
    /\ d.readable /\ Len(d.pages) >= 1
    /\ \A i \in 1..Len(d.pages) : d.pages[i] # <<>> /\ ProcessText(d.pages[i], encode).ok

\* what the batch remembers of a file it met: whether it was readable and clean
Summary(d, encode) == [readable |-> d.readable, clean |-> Clean(d, encode)]

Seen(f, sm) == [name |-> f, readable |-> sm.readable, clean |-> sm.clean]

\* the files a batch in mode 'encode' may meet, as their summaries
EncodeSummaries == {Summary(d, TRUE) : d \in DocContents}

\* no call is running
Quiet == pc \in {"idle", "done"} /\ bPc \in {"idle", "done", "raised"}

\* a variant that keeps the entries of self.errors it finds
DecodeStartKeepingErrors(f, d) ==
    /\ curDoc' = f
    /\ reader' = d
    /\ page_num' = 1
    /\ writer' = <<>>
    /\ success' = TRUE
    /\ written' = Unreadable
    /\ outcomes' = <<>>
    /\ errors' = IF d.readable THEN errors
                 ELSE Append(errors, Diag(nOps', f, "call", 0, "Failed to decode PDF: cannot open"))
    /\ pc' = IF d.readable THEN "pages" ELSE "done"
    /\ result' = IF d.readable THEN "none" ELSE "false"
    /\ steps' = IF d.readable THEN <<Step("open", 0)>>
                ELSE <<Step("open fails", 0), Step("return", 0)>>

\* lines 376-382 of decode_pdf: reset the errors, open the source.  A source
\* that cannot be opened is reported by the outer handler (lines 426-430).
DecodeStart(f, d) ==
    /\ curDoc' = f
    /\ reader' = d
    /\ page_num' = 1
    /\ writer' = <<>>
    /\ success' = TRUE
    /\ written' = Unreadable
    /\ outcomes' = <<>>
    /\ errors' = IF d.readable THEN <<>>
                 ELSE <<Diag(nOps', f, "call", 0, "Failed to decode PDF: cannot open")>>
    /\ pc' = IF d.readable THEN "pages" ELSE "done"
    /\ result' = IF d.readable THEN "none" ELSE "false"
    /\ steps' = IF d.readable THEN <<Step("open", 0)>>
                ELSE <<Step("open fails", 0), Step("return", 0)>>

\* a variant of the page loop that stops at the first page that fails
DecodePageAbortOnFailure ==
    /\ pc = "pages" /\ page_num <= Len(reader.pages)
    /\ LET o == DecodeOutcome[reader.pages[page_num], blankOnSave]
       IN  /\ outcomes' = Append(outcomes, o.ok)
           /\ IF o.ok
              THEN /\ writer' = Append(writer, [src |-> page_num, text |-> o.pages[1]])
                   /\ page_num' = page_num + 1
                   /\ UNCHANGED <<errors, success>>
              ELSE /\ errors' = Append(errors, Diag(nOps, curDoc, "page", page_num, o.err))
                   /\ success' = FALSE
                   /\ page_num' = Len(reader.pages) + 1
                   /\ UNCHANGED writer
    /\ steps' = Append(steps, Step("page", page_num))
    /\ UNCHANGED <<pc, curDoc, reader, written, result>>
    /\ UNCHANGED <<codecVars, composeVars, verifyVars, blankOnSave, nOps, batchVars>>

\* one pass of the page loop (lines 386-414)
DecodePage ==
    /\ pc = "pages" /\ page_num <= Len(reader.pages)
    /\ LET o == DecodeOutcome[reader.pages[page_num], blankOnSave]
       IN  /\ outcomes' = Append(outcomes, o.ok)
           /\ IF o.ok
              THEN /\ writer' = Append(writer, [src |-> page_num, text |-> o.pages[1]])
                   /\ UNCHANGED <<errors, success>>
              ELSE /\ errors' = Append(errors, Diag(nOps, curDoc, "page", page_num, o.err))
                   /\ success' = FALSE
                   /\ UNCHANGED writer
    /\ page_num' = page_num + 1
    /\ steps' = Append(steps, Step("page", page_num))
    /\ UNCHANGED <<pc, curDoc, reader, written, result>>
    /\ UNCHANGED <<codecVars, composeVars, verifyVars, blankOnSave, nOps, batchVars>>

\* a variant that writes before the last page was visited
DecodeWriteEarly ==
    /\ pc = "pages" /\ page_num >= Len(reader.pages)
    /\ written' = Doc([i \in 1..Len(writer) |-> writer[i].text])
    /\ pc' = "verify"
    /\ steps' = Append(steps, Step("write", 0))
    /\ UNCHANGED <<curDoc, reader, page_num, writer, success, result, outcomes, errors>>
    /\ UNCHANGED <<codecVars, composeVars, verifyVars, blankOnSave, nOps, batchVars>>

\* lines 417-418: the destination is written
DecodeWrite ==
    /\ pc = "pages" /\ page_num > Len(reader.pages)
    /\ written' = Doc([i \in 1..Len(writer) |-> writer[i].text])
    /\ pc' = "verify"
    /\ steps' = Append(steps, Step("write", 0))
    /\ UNCHANGED <<curDoc, reader, page_num, writer, success, result, outcomes, errors>>
    /\ UNCHANGED <<codecVars, composeVars, verifyVars, blankOnSave, nOps, batchVars>>

\* lines 417-418 raise: the destination cannot be written (lines 426-430)
DecodeWriteFails ==
    /\ pc = "pages" /\ page_num > Len(reader.pages)
    /\ errors' = Append(errors, Diag(nOps, curDoc, "call", 0, "Failed to decode PDF: cannot write"))
    /\ result' = "false"
    /\ pc' = "done"
    /\ steps' = steps \o <<Step("write fails", 0), Step("return", 0)>>
    /\ UNCHANGED <<curDoc, reader, page_num, writer, success, written, outcomes>>
    /\ UNCHANGED <<codecVars, composeVars, verifyVars, blankOnSave, nOps, batchVars>>

\* a variant of the return value that leaves the verifier's answer out
DecodeReturnIgnoringVerify(succ, r) == succ

\* lines 421-424: a failed verification raises, and the outer handler
\* returns False; else the page loop's flag is returned
DecodeReturn(succ, r) == IF r.ok THEN succ ELSE FALSE

\* lines 420-430: verify, then return
DecodeVerify ==
    /\ pc = "verify"
    /\ LET r == VerifyOutput(reader, written, FALSE)
           e == AfterVerify(errors, nOps, curDoc, r)
       IN  /\ errors' = IF r.ok THEN e
                        ELSE Append(e, Diag(nOps, curDoc, "call", 0,
                                            "Failed to decode PDF: Output verification failed"))
           /\ result' = IF DecodeReturn(success, r) THEN "true" ELSE "false"
    /\ pc' = "done"
    /\ steps' = steps \o <<Step("verify", 0), Step("return", 0)>>
    /\ UNCHANGED <<curDoc, reader, page_num, writer, success, written, outcomes>>
    /\ UNCHANGED <<codecVars, composeVars, verifyVars, blankOnSave, nOps, batchVars>>

\* the front end calls decode_pdf on one file
SingleDecode ==
    /\ Quiet /\ nOps < MaxOps
    /\ nOps' = nOps + 1
    /\ \E d \in DocContents : DecodeStart(1, d)
    /\ bPc' = "idle" /\ bMode' = "decode" /\ bTodo' = <<>>
    /\ successful' = <<>> /\ failed' = <<>> /\ bSeen' = <<>>
    /\ UNCHANGED <<codecVars, composeVars, verifyVars, blankOnSave>>

\* the front end calls encode_pdf on one file.  encode_pdf is defined inside
\* _process_page, after its return statements (lines 297-363): the class has
\* no such method and the call raises AttributeError.
SingleEncode ==
    /\ Quiet /\ nOps < MaxOps
    /\ nOps' = nOps + 1
    /\ pc' = "done" /\ result' = "raised" /\ curDoc' = 1
    /\ reader' = Unreadable /\ page_num' = 0 /\ writer' = <<>> /\ success' = TRUE
    /\ written' = Unreadable /\ outcomes' = <<>> /\ steps' = <<>>
    /\ bPc' = "idle" /\ bMode' = "decode" /\ bTodo' = <<>>
    /\ successful' = <<>> /\ failed' = <<>> /\ bSeen' = <<>>
    /\ UNCHANGED <<errors, codecVars, composeVars, verifyVars, blankOnSave>>


CallReset ==
    /\ pc' = "idle" /\ curDoc' = 0 /\ reader' = Unreadable /\ page_num' = 0
    /\ writer' = <<>> /\ success' = TRUE /\ written' = Unreadable
    /\ result' = "none" /\ outcomes' = <<>> /\ steps' = <<>>

\* batch_process, lines 444-451, on a directory of n .pdf files (line 454
\* passes over every other entry, which leaves no trace)
BatchStart ==
    /\ Quiet /\ nOps < MaxOps
    /\ nOps' = nOps + 1
    /\ \E mode \in {"encode", "decode"}, n \in 0..MaxDocs :
          /\ bMode' = mode
          /\ bTodo' = [i \in 1..n |-> i]
    /\ bPc' = "loop"
    /\ successful' = <<>> /\ failed' = <<>> /\ bSeen' = <<>>
    /\ CallReset
    /\ UNCHANGED <<errors, codecVars, composeVars, verifyVars, blankOnSave>>

\* lines 444-445: the input directory does not exist
BatchNoDirectory ==
    /\ Quiet /\ nOps < MaxOps
    /\ nOps' = nOps + 1
    /\ bPc' = "raised"
    /\ bMode' \in {"encode", "decode"}
    /\ bTodo' = <<>> /\ successful' = <<>> /\ failed' = <<>> /\ bSeen' = <<>>
    /\ CallReset
    /\ UNCHANGED <<errors, codecVars, composeVars, verifyVars, blankOnSave>>

\* lines 461-464 and 475-479 in mode 'encode': self.encode_pdf raises
\* AttributeError, which the handler records
BatchEncodeFile ==
    /\ bPc = "loop" /\ bTodo # <<>> /\ bMode = "encode"
    /\ \E sm \in EncodeSummaries : bSeen' = Append(bSeen, Seen(Head(bTodo), sm))
    /\ errors' = Append(errors, Diag(nOps, Head(bTodo), "batch", 0,
                                     "object has no attribute 'encode_pdf'"))
    /\ failed' = Append(failed, Head(bTodo))
    /\ bTodo' = Tail(bTodo)
    /\ UNCHANGED <<bPc, bMode, successful>>
    /\ UNCHANGED <<codecVars, composeVars, verifyVars, blankOnSave, nOps, callVars>>

\* lines 461-466 in mode 'decode': decode_pdf is called on the file
BatchDecodeFile ==
    /\ bPc = "loop" /\ bTodo # <<>> /\ bMode = "decode"
    /\ UNCHANGED nOps
    /\ \E d \in DocContents :
          /\ bSeen' = Append(bSeen, Seen(Head(bTodo), Summary(d, FALSE)))
          /\ DecodeStart(Head(bTodo), d)
    /\ bPc' = "call"
    /\ bTodo' = Tail(bTodo)
    /\ UNCHANGED <<bMode, successful, failed>>
    /\ UNCHANGED <<codecVars, composeVars, verifyVars, blankOnSave>>

\* lines 468-473: the file's name goes to one of the two lists
BatchCollect ==
    /\ bPc = "call" /\ pc = "done"
    /\ IF result = "true"
       THEN successful' = Append(successful, curDoc) /\ UNCHANGED failed
       ELSE failed' = Append(failed, curDoc) /\ UNCHANGED successful
    /\ bPc' = "loop"
    /\ CallReset
    /\ UNCHANGED <<bMode, bTodo, bSeen>>
    /\ UNCHANGED <<errors, codecVars, composeVars, verifyVars, blankOnSave, nOps>>

\* line 481
BatchReturn ==
    /\ bPc = "loop" /\ bTodo = <<>>
    /\ bPc' = "done"
    /\ UNCHANGED <<bMode, bTodo, successful, failed, bSeen>>
    /\ UNCHANGED <<errors, codecVars, composeVars, verifyVars, blankOnSave, nOps, callVars>>

Init ==
    /\ ProcessorInit
    /\ blankOnSave \in BOOLEAN
    /\ BatchIdle /\ CallIdle /\ CodecIdle /\ ComposeIdle /\ VerifyIdle

Next ==
    \/ SingleDecode
    \/ SingleEncode
    \/ DecodePage
    \/ DecodeWrite
    \/ DecodeWriteFails
    \/ DecodeVerify
    \/ BatchStart
    \/ BatchNoDirectory
    \/ BatchEncodeFile
    \/ BatchDecodeFile
    \/ BatchCollect
    \/ BatchReturn

Spec == Init /\ [][Next]_vars

----------------------------------------------------------------------------
(* Claims about document calls and batches, checked under Spec             *)

\* the call opened its source and wrote its destination
NoIoFailure == reader.readable /\ written.readable

\* a diagnostic of the running call about page i
PageDiag(i) ==
    \E k \in 1..Len(errors) :
        errors[k].kind = "page" /\ errors[k].page = i /\ errors[k].op = nOps

SomePageFailed == \E i \in 1..Len(reader.pages) : PageDiag(i)

VerifyDiag == \E k \in 1..Len(errors) : errors[k].kind = "verify" /\ errors[k].op = nOps

\* C2 as stated: without an I/O failure, the returned flag is true exactly
\* when no page failed.
C2_FlagOriginal ==
    (pc = "done" /\ NoIoFailure) => (result = "true" <=> ~SomePageFailed)

\* C2 as amended: without an I/O failure, the returned flag is true exactly
\* when no page failed and the verification of the written output passed; it
\* is false whenever a page failed.
C2_Flag ==
    (pc = "done" /\ NoIoFailure) =>
        /\ result \in {"true", "false"}
        /\ result = "true" <=> (~SomePageFailed /\ ~VerifyDiag)
        /\ SomePageFailed => result = "false"

\* a call all of whose pages were processed, failed by the verifier alone
C2_Witness ==
    /\ pc = "done" /\ NoIoFailure /\ result = "false"
    /\ Len(reader.pages) >= 1 /\ ~SomePageFailed /\ VerifyDiag

\* page i of the source is empty or is refused by the codec adapter
EmptyOrCodecFails(i) ==
    reader.pages[i] = <<>> \/ ~ProcessText(reader.pages[i], FALSE).ok

\* the source pages whose output the writer holds, in the writer's order
WriterSources == [k \in 1..Len(writer) |-> writer[k].src]

\* C3: a page that is empty or that the codec refuses leaves a diagnostic for
\* that page and stops nothing: every page is visited, the destination is
\* written (no I/O failure) with the output of the pages that did not fail,
\* in source order, and the call returns False.
C3_PageIsolation ==
    (pc \in {"verify", "done"} /\ NoIoFailure) =>
        /\ Len(outcomes) = Len(reader.pages)
        /\ \A i \in 1..Len(reader.pages) :
              /\ EmptyOrCodecFails(i) => (PageDiag(i) /\ ~outcomes[i])
              /\ outcomes[i] <=> (\E k \in 1..Len(writer) : writer[k].src = i)
              /\ outcomes[i] <=> ~PageDiag(i)
        /\ \A k \in 1..(Len(writer) - 1) : writer[k].src < writer[k + 1].src
        /\ written.pages = [k \in 1..Len(writer) |->
              PageText(CreateTextPage(ProcessText(reader.pages[writer[k].src], FALSE).text,
                                      blankOnSave).pages[1])]
        /\ (pc = "done" /\ \E i \in 1..Len(reader.pages) : EmptyOrCodecFails(i))
              => result = "false"

\* an empty first page, and the second page processed and written all the same
C3_Witness ==
    /\ pc = "done" /\ NoIoFailure /\ result = "false"
    /\ Len(reader.pages) = 2 /\ reader.pages[1] = <<>>
    /\ PageDiag(1) /\ WriterSources = <<2>>
    /\ written.pages = << <<"a", " ", "a">> >>

InList(f, list) == \E k \in 1..Len(list) : list[k] = f

\* C4: when batch_process returns, in either mode, every file that is
\* readable and clean is in the success list, every unreadable file is in the
\* failure list, and each file met is in exactly one of the two lists.
C4_BatchLists ==
    bPc = "done" =>
        \A i \in 1..Len(bSeen) :
            /\ bSeen[i].clean => InList(bSeen[i].name, successful)
            /\ ~bSeen[i].readable => InList(bSeen[i].name, failed)
            /\ InList(bSeen[i].name, successful) # InList(bSeen[i].name, failed)

\* C5: when batch_process returns, self.errors still holds a diagnostic for
\* every file of the failure list.
C5_FailedHaveDiagnostics ==
    bPc = "done" =>
        \A i \in 1..Len(failed) :
            \E k \in 1..Len(errors) : errors[k].doc = failed[i] /\ errors[k].op = nOps

\* C12: when a decode_pdf call returns, every entry of self.errors was added
\* by that call: it belongs to the running top-level operation and is about
\* the file the call was given; nothing of an earlier call is left.
C12_ErrorsOfThisCall ==
    (pc = "done" /\ result \in {"true", "false"}) =>
        \A k \in 1..Len(errors) : errors[k].op = nOps /\ errors[k].doc = curDoc

\* the second file of a batch returns with diagnostics of its own, after the
\* first file failed with diagnostics too
C12_Witness ==
    /\ bPc = "call" /\ pc = "done" /\ result = "false"
    /\ curDoc = 2 /\ failed = <<1>>
    /\ errors # <<>> /\ \A k \in 1..Len(errors) : errors[k].doc = 2

----------------------------------------------------------------------------
(* decode_pdf alone, on sources that include a page whose decoded text     *)
(* does not fit on one composed page                                       *)

LongDocs == {Doc(<<PLong>>), Doc(<<PLong, POk>>)}

CallDocs == DocContents \cup LongDocs

\* decode_pdf is called on one file
DecodeCall ==
    /\ pc \in {"idle", "done"} /\ nOps < MaxOps
    /\ nOps' = nOps + 1
    /\ \E d \in CallDocs : DecodeStart(1, d)
    /\ UNCHANGED <<codecVars, composeVars, verifyVars, blankOnSave, batchVars>>

\* a step of the running call
CallStep == DecodePage \/ DecodeWrite \/ DecodeWriteFails \/ DecodeVerify

NextCall ==
    \/ DecodeCall
    \/ DecodePage
    \/ DecodeWrite
    \/ DecodeWriteFails
    \/ DecodeVerify

\* the call runs on one thread and each of its steps ends: a call that can
\* take a step takes one
SpecCall == Init /\ [][NextCall]_vars /\ WF_vars(CallStep)

\* the pages the composer returns for source page i
Composed(i) ==
    CreateTextPage(ProcessText(reader.pages[i], FALSE).text, blankOnSave).pages

\* C11: the destination holds, for every source page that was processed, all
\* the pages the composer returned for it, in order, and nothing else.
C11_AllPagesAppended ==
    (pc \in {"verify", "done"} /\ NoIoFailure) =>
        written.pages =
            Concat([i \in 1..Len(reader.pages) |->
                       IF outcomes[i]
                       THEN [j \in 1..Len(Composed(i)) |-> PageText(Composed(i)[j])]
                       ELSE <<>>])

PageSteps(n) == [i \in 1..n |-> Step("page", i)]

\* Init -> PerPage(1) -> ... -> PerPage(n) -> Finalize -> Done
FullCall(n) ==
    <<Step("open", 0)>> \o PageSteps(n)
        \o <<Step("write", 0), Step("verify", 0), Step("return", 0)>>

\* the same, with a destination that cannot be written
WriteFailsCall(n) ==
    <<Step("open", 0)>> \o PageSteps(n) \o <<Step("write fails", 0), Step("return", 0)>>

IsPrefix(a, b) == Len(a) <= Len(b) /\ a = SubSeq(b, 1, Len(a))

\* what a decode_pdf call has done so far is the start of one of its two
\* courses, and the whole of one when it has returned
C16_Order ==
    pc # "idle" =>
        /\ reader.readable =>
              /\ \/ IsPrefix(steps, FullCall(Len(reader.pages)))
                 \/ IsPrefix(steps, WriteFailsCall(Len(reader.pages)))
              /\ written.readable <=> (\E k \in 1..Len(steps) : steps[k].what = "write")
              /\ pc = "done" =>
                    steps \in {FullCall(Len(reader.pages)), WriteFailsCall(Len(reader.pages))}
        /\ ~reader.readable =>
              /\ pc = "done" /\ steps = <<Step("open fails", 0), Step("return", 0)>>
              /\ ~written.readable /\ outcomes = <<>> /\ writer = <<>>
        /\ pc = "done" => result \in {"true", "false"}

\* C16: a decode_pdf call whose source opens visits every page once, in
\* increasing order, then writes the destination once (unless the write
\* fails), then verifies, then returns a boolean; a call whose source does
\* not open visits no page and writes nothing; and every call returns.
C16_CallOrder == []C16_Order /\ ((pc \in {"pages", "verify"}) ~> (pc = "done"))

\* a call on two pages, the first of which failed: both visited, then the
\* write, the verification and the return
C16_Witness ==
    /\ pc = "done" /\ Len(reader.pages) = 2 /\ steps = FullCall(2)
    /\ outcomes = <<FALSE, TRUE>> /\ result = "false"

----------------------------------------------------------------------------
(* Claims about the composer's prose mode, checked under SpecCompose       *)

\* C13 as stated: every rendered page holds at most
\* lines_per_page = floor(usable_height / line_pitch) = 36 lines.
C13_LinesPerPageOriginal ==
    coDone => \A i \in 1..Len(coRes.pages) : Len(coRes.pages[i]) <= LinesPerPage

\* C13 as amended: the lines of a prose are rendered in order, and every
\* page takes lines_per_page + 1 = 37 of them (the last line of a page is
\* drawn on the bottom margin itself) but the last page, which takes the
\* rest; no page is empty unless nothing was drawn at all.
C13_LinesPerPage ==
    (coDone /\ ~coRes.token) =>
        /\ \A i \in 1..Len(coRes.pages) : Len(coRes.pages[i]) <= LinesPerPage + 1
        /\ \A i \in 1..(Len(coRes.pages) - 1) : Len(coRes.pages[i]) = LinesPerPage + 1
        /\ coRes.lines # <<>> =>
              /\ RenderedLines = coRes.lines
              /\ coRes.pages[Len(coRes.pages)] # <<>>

\* a prose of 38 lines: 37 on the first page, one on the second
C13_Witness ==
    /\ coDone /\ ~coRes.token /\ Len(coRes.lines) = LinesPerPage + 2
    /\ Len(coRes.pages) = 2
    /\ Len(coRes.pages[1]) = LinesPerPage + 1 /\ Len(coRes.pages[2]) = 1

\* the words of the lines, in line order
WordsOfLines(lines) == Concat([i \in 1..Len(lines) |-> Split(lines[i])])

\* C14: in prose mode every line of the word wrap is no wider than the usable
\* width or holds exactly one word, and a word wider than the usable width is
\* a line of its own, whole.
C14_WrapWidth ==
    (coDone /\ ~coRes.token) =>
        /\ \A i \in 1..Len(coRes.lines) :
              \/ stringWidth(coRes.lines[i]) <= max_width
              \/ Len(Split(coRes.lines[i])) = 1
        /\ \A k \in 1..Len(Split(coText)) :
              stringWidth(Split(coText)[k]) > max_width =>
                  \E i \in 1..Len(coRes.lines) : coRes.lines[i] = Split(coText)[k]

\* a word wider than the line between two short words: three lines
C14_Witness ==
    /\ coDone /\ ~coRes.token
    /\ coText = Sentence(<<WordOf(1), WordOf(WideWord), WordOf(1)>>)
    /\ coRes.lines = <<WordOf(1), WordOf(WideWord), WordOf(1)>>
    /\ stringWidth(WordOf(WideWord)) > max_width

\* C15: the composer is in token mode exactly when the text holds a '['
\* followed by one of the four sigils; a text whose tokens all carry the
\* sigil '+' is laid out in groups of 3 tokens.
C15_ModeSelection ==
    coDone =>
        /\ coRes.token <=> (\E sg \in Sigils : Contains(coText, <<"[", sg>>))
        /\ (FindAll(coText) # <<>> /\ \A k \in 1..Len(FindAll(coText)) : FindAll(coText)[k][2] = "+")
              => coRes.lines = GroupBlocks(FindAll(coText), TokensPerLine)

\* C17: in prose mode no line of the word wrap is empty, and the words of
\* the lines, in line order, are the words of the input.
C17_WrapLossless ==
    (coDone /\ ~coRes.token) =>
        /\ \A i \in 1..Len(coRes.lines) : coRes.lines[i] # <<>>
        /\ WordsOfLines(coRes.lines) = Split(coText)

\* three words on two lines, the first line holding two of them
C17_Witness ==
    /\ coDone /\ ~coRes.token
    /\ coText = Sentence(<<WordOf(1), WordOf(HalfLine), WordOf(HalfLine)>>)
    /\ coRes.lines = <<Sentence(<<WordOf(1), WordOf(HalfLine)>>), WordOf(HalfLine)>>

=============================================================================
